---- MODULE Spec2Model ----
(***************************************************************************)
(* EvalEaseAI (JaipuriaAILabs/eval-ease): the evaluation client            *)
(* (src/src/llm_utils.py), the data model (src/src/data_models.py), the    *)
(* export projections (src/src/csv_utils.py) and the session controller    *)
(* (src/app.py) as a state machine.                                        *)
(*                                                                         *)
(* Python values are encoded as follows.                                   *)
(*   - a dict is a TLA+ function whose domain is its key set, when the     *)
(*     iteration order is of no interest (a response object, a result      *)
(*     entry, an outcome), and a sequence of <<key, value>> pairs with     *)
(*     unique keys, in insertion order, when it is (questions_dict, the    *)
(*     scores and feedback of an EvaluationResult);                        *)
(*   - an object that is not a dict is a record with a py_type field and   *)
(*     one field per attribute;                                            *)
(*   - a score is <<"num", n>> for the number n and <<"str", s>> for a     *)
(*     string found where a number was expected;                           *)
(*   - an exception is a record [exception |-> message].                   *)
(* Streamlit runs the script top to bottom on every interaction; one       *)
(* action of the model is one such run, except that the evaluation loop    *)
(* (app.py 314-373) is unrolled into one step per student so that its      *)
(* intermediate states can be observed.  No other interaction is served    *)
(* while the loop runs (spec section 5: no cancellation mid-call).         *)
(***************************************************************************)
EXTENDS Integers, Sequences, FiniteSets, TLC

VARIABLES
    GEMINI_API_KEY,          \* llm_utils.py 13: read once from the environment
    students,                \* st.session_state.students
    rubric,                  \* st.session_state.rubric
    results,                 \* st.session_state.results
    questions_dict,          \* st.session_state.questions_dict
    criteria_list,           \* st.session_state.criteria_list
    evaluation_in_progress,  \* st.session_state.evaluation_in_progress
    evaluate_single,         \* st.session_state.evaluate_single
    selected_student_idx,    \* st.session_state.selected_student_idx
    students_to_evaluate,    \* app.py 306-309: the list the running loop iterates
    loop_idx,                \* app.py 314: number of students the running loop has finished
    response,                \* SpecEval: what the endpoint does in the call of evaluate_with_gemini
    outcome,                 \* SpecEval: what the call of evaluate_with_gemini did
    calls,                   \* history: the calls of evaluate_with_gemini made by the running loop
    endpoint_calls,          \* history: number of generate_content calls made by the running loop
    had_entry,               \* history: roll numbers that had a result when the loop was started
    exported                 \* SpecExport: the payload of the download button pressed in this run

vars == <<GEMINI_API_KEY, students, rubric, results, questions_dict, criteria_list,
          evaluation_in_progress, evaluate_single, selected_student_idx,
          students_to_evaluate, loop_idx, response, outcome, calls, endpoint_calls,
          had_entry, exported>>

----------------------------------------------------------------------------
(* Bounds of the model *)

\* most students a session holds
MaxStudents == 2
\* most entries in the question_evaluations list of a model response
MaxEvals == 2
\* most criteria in the criteria sequence
MaxCriteria == 2

----------------------------------------------------------------------------
(* Python helpers *)

None == [py_type |-> "NoneType"]

Num(n) == <<"num", n>>

Str(s) == <<"str", s>>

\* isinstance(v, dict)
isinstance_dict(v) == "py_type" \notin DOMAIN v

\* hasattr(v, a)
hasattr(v, a) == "py_type" \in DOMAIN v /\ a \in DOMAIN v

\* d.get(k, default) on a dict held as a function
get(d, k, default) == IF k \in DOMAIN d THEN d[k] ELSE default

\* an exception being raised, a value being returned
Raise(msg) == [exception |-> msg]

Return(v) == [returned |-> v]

Raises(r) == "exception" \in DOMAIN r

\* Ordered dicts: sequences of <<key, value>> pairs
Keys(d) == [i \in 1..Len(d) |-> d[i][1]]

KeySet(d) == {d[i][1] : i \in 1..Len(d)}

\* k in d
HasKey(d, k) == k \in KeySet(d)

\* d[k], for a key of d
Lookup(d, k) == d[CHOOSE i \in 1..Len(d) : d[i][1] = k][2]

\* d.get(k, default)
DictGet(d, k, default) == IF HasKey(d, k) THEN Lookup(d, k) ELSE default

\* d[k] = v: an existing key keeps its position, a new key goes last
DictSet(d, k, v) ==
    IF HasKey(d, k)
    THEN [i \in 1..Len(d) |-> IF d[i][1] = k THEN <<k, v>> ELSE d[i]]
    ELSE Append(d, <<k, v>>)

\* del d[k]
DictDel(d, k) == SelectSeq(d, LAMBDA p : p[1] # k)

----------------------------------------------------------------------------
(* data_models.py *)

Student(name, roll_number, pdf_filename, pdf_bytes) ==
    [name |-> name, roll_number |-> roll_number,
     pdf_filename |-> pdf_filename, pdf_bytes |-> pdf_bytes]

QuestionRubric(question, standard_answer) ==
    [question |-> question, standard_answer |-> standard_answer]

RubricCriteria(title, explanation) ==
    [title |-> title, explanation |-> explanation]

QuestionEvaluation(question_id, score, feedback) ==
    [py_type |-> "QuestionEvaluation",
     question_id |-> question_id, score |-> score, feedback |-> feedback]

GeminiEvaluationResponse(question_evaluations, overall_feedback) ==
    [py_type |-> "GeminiEvaluationResponse",
     question_evaluations |-> question_evaluations,
     overall_feedback |-> overall_feedback]

\* GeminiEvaluationResponse.to_dict
to_dict(self) ==
    [results |-> [i \in 1..Len(self.question_evaluations) |->
                    [question_id |-> self.question_evaluations[i].question_id,
                     score |-> self.question_evaluations[i].score,
                     feedback |-> self.question_evaluations[i].feedback]],
     overall_feedback |-> self.overall_feedback]

EvaluationResult(student, scores, feedback, overall_feedback, raw_response) ==
    [student |-> student, scores |-> scores, feedback |-> feedback,
     overall_feedback |-> overall_feedback, raw_response |-> raw_response]

----------------------------------------------------------------------------
(* llm_utils.py *)

\* Python truthiness of a string
Truthy(s) == s # ""

\* lines 15-45: the prompt, held as its four parts, each a sequence of lines
build_prompt(criteria, questions) ==
    [preamble |-> <<"You are an AI evaluator. Use the following rubric criteria and "
                    \o "questions to evaluate the student's PDF response.">>,
     criteria |-> [i \in 1..Len(criteria) |->
                     "R" \o ToString(i) \o ". " \o criteria[i].title
                         \o ": " \o criteria[i].explanation],
     questions |-> [k \in 1..Len(questions) |->
                      questions[k][1] \o ": " \o questions[k][2].question
                          \o "\nStandard Answer: " \o questions[k][2].standard_answer],
     instructions |->
         <<"1. Evaluate the student's response against each question and the rubric criteria.",
           "2. For each question, provide a score (0-10) and detailed feedback.",
           "3. Provide an overall assessment of the student's work.">>]

\* json.loads(text): a text is [chars |-> c] when c is no JSON document and
\* [chars |-> c, denotes |-> v] when c is the JSON document of the value v
json_loads(text) ==
    IF "denotes" \in DOMAIN text
    THEN Return(text.denotes)
    ELSE Raise("Expecting value: line 1 column 1 (char 0)")

\* backfill_question leaving the question empty for an id of no rubric question
backfill_question_blank_when_unknown(result, questions) ==
    [question_id |-> result.question_id,
     score |-> result.score,
     feedback |-> result.feedback,
     question |-> IF HasKey(questions, result.question_id)
                  THEN Lookup(questions, result.question_id).question
                  ELSE ""]

\* lines 153-159: the question text of every result, for display
backfill_question(result, questions) ==
    [question_id |-> result.question_id,
     score |-> result.score,
     feedback |-> result.feedback,
     question |-> IF HasKey(questions, result.question_id)
                  THEN Lookup(questions, result.question_id).question
                  ELSE "Unknown question"]

\* parsed_dict_evaluations reading every key with [] instead of get
parsed_dict_evaluations_strict(parsed_data) ==
    IF ~{"question_evaluations", "overall_feedback"} \subseteq DOMAIN parsed_data
    THEN Raise("KeyError")
    ELSE LET evals == parsed_data.question_evaluations
         IN  IF \E i \in 1..Len(evals) :
                   ~{"question_id", "score", "feedback"} \subseteq DOMAIN evals[i]
             THEN Raise("KeyError")
             ELSE Return(GeminiEvaluationResponse(
                      [i \in 1..Len(evals) |->
                          QuestionEvaluation(evals[i].question_id,
                                             evals[i].score,
                                             evals[i].feedback)],
                      parsed_data.overall_feedback))

\* lines 122-131: response.parsed is a dict
parsed_dict_evaluations(parsed_data) ==
    LET evals == get(parsed_data, "question_evaluations", <<>>)
    IN  IF \E i \in 1..Len(evals) : ~isinstance_dict(evals[i])
        THEN Raise("object has no attribute 'get'")
        ELSE Return(GeminiEvaluationResponse(
                 [i \in 1..Len(evals) |->
                     QuestionEvaluation(get(evals[i], "question_id", ""),
                                        get(evals[i], "score", Num(0)),
                                        get(evals[i], "feedback", ""))],
                 get(parsed_data, "overall_feedback", "")))

\* lines 132-142: response.parsed is taken for a PydanticEvaluationResponse
parsed_object_evaluations(parsed_data) ==
    IF ~hasattr(parsed_data, "question_evaluations")
    THEN Raise("object has no attribute 'question_evaluations'")
    ELSE IF ~hasattr(parsed_data, "overall_feedback")
    THEN Raise("object has no attribute 'overall_feedback'")
    ELSE LET evals == parsed_data.question_evaluations
         IN  IF \E i \in 1..Len(evals) : ~hasattr(evals[i], "question_id")
             THEN Raise("object has no attribute 'question_id'")
             ELSE IF \E i \in 1..Len(evals) : ~hasattr(evals[i], "score")
             THEN Raise("object has no attribute 'score'")
             ELSE IF \E i \in 1..Len(evals) : ~hasattr(evals[i], "feedback")
             THEN Raise("object has no attribute 'feedback'")
             ELSE Return(GeminiEvaluationResponse(
                      [i \in 1..Len(evals) |->
                          QuestionEvaluation(evals[i].question_id,
                                             evals[i].score,
                                             evals[i].feedback)],
                      parsed_data.overall_feedback))

\* lines 116-161: the structured path
structured_path(parsed_data, questions) ==
    LET evaluation_response ==
            IF isinstance_dict(parsed_data)
            THEN parsed_dict_evaluations(parsed_data)
            ELSE parsed_object_evaluations(parsed_data)
    IN  IF Raises(evaluation_response)
        THEN evaluation_response
        ELSE LET formatted_response == to_dict(evaluation_response.returned)
             IN  Return([results |->
                             [i \in 1..Len(formatted_response.results) |->
                                 backfill_question(formatted_response.results[i],
                                                   questions)],
                         overall_feedback |-> formatted_response.overall_feedback])

\* line 177: the entries the raw-JSON path keeps
raw_keeps(eval_item, questions) ==
    LET q_id == get(eval_item, "question_id", "")
    IN  Truthy(q_id) /\ HasKey(questions, q_id)

\* raw_result reading the score under a key the answer never has
raw_result_wrong_score_key(eval_item, questions) ==
    [question_id |-> eval_item.question_id,
     question |-> Lookup(questions, eval_item.question_id).question,
     score |-> get(eval_item, "scores", Num(0)),
     feedback |-> get(eval_item, "feedback", "")]

\* lines 178-183: the result appended for a kept entry
raw_result(eval_item, questions) ==
    [question_id |-> eval_item.question_id,
     question |-> Lookup(questions, eval_item.question_id).question,
     score |-> get(eval_item, "score", Num(0)),
     feedback |-> get(eval_item, "feedback", "")]

\* raw_json_path keeping every entry, as the structured path does
raw_json_path_keeps_all(text, questions) ==
    LET loaded == json_loads(text)
    IN  IF Raises(loaded)
        THEN loaded
        ELSE structured_path(loaded.returned, questions)

\* lines 163-185: the raw-JSON fallback path
raw_json_path(text, questions) ==
    LET loaded == json_loads(text)
    IN  IF Raises(loaded)
        THEN loaded
        ELSE LET parsed_response == loaded.returned
             IN  IF ~isinstance_dict(parsed_response)
                 THEN Raise("object has no attribute 'get'")
                 ELSE LET evals == get(parsed_response, "question_evaluations", <<>>)
                          kept == SelectSeq(evals,
                                      LAMBDA e : isinstance_dict(e) /\ raw_keeps(e, questions))
                      IN  IF \E i \in 1..Len(evals) : ~isinstance_dict(evals[i])
                          THEN Raise("object has no attribute 'get'")
                          ELSE Return(
                                 [results |-> [i \in 1..Len(kept) |->
                                                  raw_result(kept[i], questions)],
                                  overall_feedback |->
                                      get(parsed_response, "overall_feedback", "")])

\* lines 108-185: the body of the try statement; resp is what
\* model.generate_content does: it raises ([raises |-> message]) or returns
\* a response object, with a parsed attribute or with a text only
try_body(resp, questions) ==
    IF "raises" \in DOMAIN resp
    THEN Raise(resp.raises)
    ELSE IF hasattr(resp, "parsed")
    THEN structured_path(resp.parsed, questions)
    ELSE raw_json_path(resp.text, questions)

\* lines 187-194: the except clause
error_outcome(e) ==
    [error |-> "Failed to process with Gemini: " \o e,
     results |-> <<>>,
     overall_feedback |-> "Error occurred during evaluation."]

\* lines 92-93: the credential check, made before the try statement
credential_missing == ~Truthy(GEMINI_API_KEY)

\* evaluate_with_gemini without its except clause
evaluate_without_except(pdf_bytes, questions, criteria, resp) ==
    IF credential_missing
    THEN Raise("GEMINI_API_KEY not set in environment.")
    ELSE try_body(resp, questions)

\* lines 72-194. The prompt built from criteria_list goes to the endpoint,
\* whose answer resp is an input here.
evaluate_with_gemini(pdf_bytes, questions, criteria, resp) ==
    IF credential_missing
    THEN Raise("GEMINI_API_KEY not set in environment.")
    ELSE LET body == try_body(resp, questions)
         IN  IF Raises(body)
             THEN Return(error_outcome(body.exception))
             ELSE body

----------------------------------------------------------------------------
(* What the endpoint may answer *)

\* question ids a rubric can hold
QuestionIds == {"Q1", "Q2"}

\* question ids a model answer can name: rubric ids, an id of no rubric, the empty id
ResponseIds == QuestionIds \cup {"Q9", ""}

QuestionText(q_id) == IF q_id = "Q1" THEN "What?" ELSE "Why?"

\* sequences over S of length at most n
SeqsUpTo(S, n) == UNION {[1..k -> S] : k \in 0..n}

\* entries of question_evaluations in a dict or in a JSON document:
\* complete ones, ones with a string for a score, ones with a key missing,
\* and a value that is no object
EvalItems ==
    {[question_id |-> q, score |-> s, feedback |-> "good"] :
         q \in ResponseIds, s \in {Num(7), Str("high")}}
    \cup {[score |-> Num(7), feedback |-> "good"],
          [question_id |-> "Q1", feedback |-> "good"],
          [question_id |-> "Q2", score |-> Num(7)],
          [py_type |-> "str"]}

\* answers as a dict or as the value of a JSON document
AnswerValues ==
    {[question_evaluations |-> es, overall_feedback |-> "fine"] :
         es \in SeqsUpTo(EvalItems, MaxEvals)}
    \cup {[question_evaluations |-> es] : es \in SeqsUpTo(EvalItems, MaxEvals)}
    \cup {[overall_feedback |-> "fine"], [py_type |-> "list"]}

\* answers as a validated PydanticEvaluationResponse
PydanticItems ==
    {[py_type |-> "PydanticQuestionEvaluation",
      question_id |-> q, score |-> Num(7), feedback |-> "good"] : q \in ResponseIds}

PydanticAnswers ==
    {[py_type |-> "PydanticEvaluationResponse",
      question_evaluations |-> es, overall_feedback |-> "fine"] :
         es \in SeqsUpTo(PydanticItems, MaxEvals)}

\* everything model.generate_content may do
Responses ==
    {[raises |-> m] : m \in {"", "503 Service Unavailable"}}
    \cup {[py_type |-> "GenerateContentResponse", parsed |-> v] :
              v \in AnswerValues \cup PydanticAnswers \cup {None}}
    \cup {[py_type |-> "GenerateContentResponse",
           text |-> [chars |-> "json", denotes |-> v]] : v \in AnswerValues}
    \cup {[py_type |-> "GenerateContentResponse", text |-> [chars |-> "I cannot"]]}

\* the questions maps a session can build over QuestionIds
QuestionMaps ==
    {[i \in 1..Len(ks) |-> <<ks[i], QuestionRubric(QuestionText(ks[i]), "answer")>>] :
        ks \in {<<>>, <<"Q1">>, <<"Q2">>, <<"Q1", "Q2">>, <<"Q2", "Q1">>}}

NotCalled == [status |-> "not called"]

NotExported == [format |-> "none"]

----------------------------------------------------------------------------
(* evaluate_with_gemini as a function of its inputs *)

InitEval ==
    /\ GEMINI_API_KEY \in {"", "key"}
    /\ questions_dict \in QuestionMaps
    /\ criteria_list = <<RubricCriteria("Clarity", "Is it clear?")>>
    /\ students = <<>>
    /\ rubric = "None"
    /\ results = <<>>
    /\ evaluation_in_progress = FALSE
    /\ evaluate_single = FALSE
    /\ selected_student_idx = 0
    /\ students_to_evaluate = <<>>
    /\ loop_idx = 0
    /\ response = NotCalled
    /\ outcome = NotCalled
    /\ calls = <<>>
    /\ endpoint_calls = 0
    /\ had_entry = {}
    /\ exported = NotExported

\* one call of evaluate_with_gemini, the endpoint answering resp
Call(resp) ==
    /\ outcome = NotCalled
    /\ response' = resp
    /\ outcome' = evaluate_with_gemini("%PDF", questions_dict, criteria_list, resp)
    /\ UNCHANGED <<GEMINI_API_KEY, students, rubric, results, questions_dict,
                   criteria_list, evaluation_in_progress, evaluate_single,
                   selected_student_idx, students_to_evaluate, loop_idx, calls,
                   endpoint_calls, had_entry, exported>>

NextEval == \E resp \in Responses : Call(resp)

SpecEval == InitEval /\ [][NextEval]_vars

----------------------------------------------------------------------------
(* app.py: the session controller *)

\* what the user can type or upload
RollInputs == {"", "101", "102"}

FileNames == {"a.pdf", "b.pdf"}

QuestionIdInputs == QuestionIds \cup {""}

QuestionTextInputs == {"", "What?"}

AnswerInputs == {"", "answer"}

RubricIdInputs == {"", "R1", "R9"}

TitleInputs == {"", "Clarity"}

ExplanationInputs == {"", "Is it clear?"}

EditedScores == {Num(10)}

EditedFeedback == {"edited"}

\* the endpoint behaviours a session is run against: the call throws, or
\* it returns a structured answer with an entry for Q1 and an entry of
\* empty id (SpecEval runs evaluate_with_gemini against all of Responses)
SessionResponses ==
    {[raises |-> "503 Service Unavailable"],
     [py_type |-> "GenerateContentResponse",
      parsed |-> [question_evaluations |->
                      <<[question_id |-> "Q1", score |-> Num(7), feedback |-> "good"],
                        [question_id |-> "", score |-> Num(7), feedback |-> "good"]>>,
                  overall_feedback |-> "fine"]]}

\* lines 82-91, and the credential the process was started with
Init ==
    /\ GEMINI_API_KEY \in {"", "key"}
    /\ students = <<>>
    /\ rubric = "None"
    /\ results = <<>>
    /\ questions_dict = <<>>
    /\ criteria_list = <<>>
    /\ evaluation_in_progress = FALSE
    /\ evaluate_single = FALSE
    /\ selected_student_idx = 0
    /\ students_to_evaluate = <<>>
    /\ loop_idx = 0
    /\ response = NotCalled
    /\ outcome = NotCalled
    /\ calls = <<>>
    /\ endpoint_calls = 0
    /\ had_entry = {}
    /\ exported = NotExported

\* no evaluation loop is running: the script serves an interaction
Idle == ~evaluation_in_progress

\* line 131
already_added(file_name, roll) ==
    \E i \in 1..Len(students) :
        students[i].pdf_filename = file_name /\ students[i].roll_number = roll

\* lines 130-136: Save Student on an uploaded file
SaveStudent(file_name, roll) ==
    /\ Idle
    /\ Len(students) < MaxStudents
    /\ ~already_added(file_name, roll) /\ Truthy(roll)
    /\ students' = Append(students,
                     Student("Student-" \o roll, roll, file_name, "bytes of " \o file_name))
    /\ UNCHANGED <<GEMINI_API_KEY, rubric, results, questions_dict, criteria_list,
                   evaluation_in_progress, evaluate_single, selected_student_idx,
                   students_to_evaluate, loop_idx, response, outcome, calls,
                   endpoint_calls, had_entry, exported>>

\* lines 156-165: Add Question
AddQuestion(q_id, question, standard_answer) ==
    /\ Idle
    /\ Truthy(q_id) /\ Truthy(question) /\ Truthy(standard_answer)
    /\ questions_dict' = DictSet(questions_dict, q_id,
                                 QuestionRubric(question, standard_answer))
    /\ UNCHANGED <<GEMINI_API_KEY, students, rubric, results, criteria_list,
                   evaluation_in_progress, evaluate_single, selected_student_idx,
                   students_to_evaluate, loop_idx, response, outcome, calls,
                   endpoint_calls, had_entry, exported>>

\* lines 174-176: Delete <q_id>
DeleteQuestion(q_id) ==
    /\ Idle
    /\ HasKey(questions_dict, q_id)
    /\ questions_dict' = DictDel(questions_dict, q_id)
    /\ UNCHANGED <<GEMINI_API_KEY, students, rubric, results, criteria_list,
                   evaluation_in_progress, evaluate_single, selected_student_idx,
                   students_to_evaluate, loop_idx, response, outcome, calls,
                   endpoint_calls, had_entry, exported>>

\* lines 187, 191, 210: the display id of the criterion at position i (from 1)
DisplayId(i) == "R" \o ToString(i)

\* criteria_after_add appending whatever rubric id was entered
criteria_after_add_always_append(criteria, r_id, title, explanation) ==
    Append(criteria, RubricCriteria(title, explanation))

\* lines 187-203: the criteria sequence after Add Rubric Criteria
criteria_after_add(criteria, r_id, title, explanation) ==
    IF \E i \in 1..Len(criteria) : DisplayId(i) = r_id
    THEN [i \in 1..Len(criteria) |->
            IF DisplayId(i) = r_id
            THEN RubricCriteria(title, explanation)
            ELSE criteria[i]]
    ELSE Append(criteria, RubricCriteria(title, explanation))

\* lines 185-204: Add Rubric Criteria
AddCriteria(r_id, title, explanation) ==
    /\ Idle
    /\ Truthy(r_id) /\ Truthy(title) /\ Truthy(explanation)
    /\ Len(criteria_after_add(criteria_list, r_id, title, explanation)) <= MaxCriteria
    /\ criteria_list' = criteria_after_add(criteria_list, r_id, title, explanation)
    /\ UNCHANGED <<GEMINI_API_KEY, students, rubric, results, questions_dict,
                   evaluation_in_progress, evaluate_single, selected_student_idx,
                   students_to_evaluate, loop_idx, response, outcome, calls,
                   endpoint_calls, had_entry, exported>>

\* lines 207-213: the expanders of the criteria, each with its delete button
criteria_expanders(criteria) ==
    [i \in 1..Len(criteria) |->
        [label |-> "R" \o ToString(i) \o ": " \o criteria[i].title,
         button |-> "Delete R" \o ToString(i)]]

\* DeleteCriteria popping the last criterion whichever button was pressed
DeleteLastCriteria(i) ==
    /\ Idle
    /\ i \in 1..Len(criteria_list)
    /\ criteria_list' = SubSeq(criteria_list, 1, Len(criteria_list) - 1)
    /\ UNCHANGED <<GEMINI_API_KEY, students, rubric, results, questions_dict,
                   evaluation_in_progress, evaluate_single, selected_student_idx,
                   students_to_evaluate, loop_idx, response, outcome, calls,
                   endpoint_calls, had_entry, exported>>

\* lines 213-215: Delete R<i>
DeleteCriteria(i) ==
    /\ Idle
    /\ i \in 1..Len(criteria_list)
    /\ criteria_list' = [j \in 1..(Len(criteria_list) - 1) |->
                            IF j < i THEN criteria_list[j] ELSE criteria_list[j + 1]]
    /\ UNCHANGED <<GEMINI_API_KEY, students, rubric, results, questions_dict,
                   evaluation_in_progress, evaluate_single, selected_student_idx,
                   students_to_evaluate, loop_idx, response, outcome, calls,
                   endpoint_calls, had_entry, exported>>

\* lines 218-223: Save Complete Rubric. The Rubric holds the session's own
\* questions_dict and criteria_list objects, not copies of them.
SaveRubric ==
    /\ Idle
    /\ questions_dict # <<>> /\ criteria_list # <<>>
    /\ rubric' = "Rubric(questions_dict, criteria_list)"
    /\ UNCHANGED <<GEMINI_API_KEY, students, results, questions_dict, criteria_list,
                   evaluation_in_progress, evaluate_single, selected_student_idx,
                   students_to_evaluate, loop_idx, response, outcome, calls,
                   endpoint_calls, had_entry, exported>>

\* lines 219-222: the questions and the criteria of the saved Rubric. They
\* are the session's own dict and list, so they hold what those hold now.
rubric_questions == questions_dict

rubric_criteria == criteria_list

\* ready_for_evaluation without the test of questions_dict
ready_without_questions_check ==
    /\ students # <<>>
    /\ rubric # "None"
    /\ criteria_list # <<>>

\* lines 250-255
ready_for_evaluation ==
    /\ students # <<>>
    /\ rubric # "None"
    /\ questions_dict # <<>>
    /\ criteria_list # <<>>

\* the roll numbers that have an entry in the result collection
RollsOfResults == {results[i].student.roll_number : i \in 1..Len(results)}

\* lines 281-285, 302-309: Run AI Evaluation for All Students
RunAllButton ==
    /\ Idle
    /\ ready_for_evaluation
    /\ results' = <<>>
    /\ evaluation_in_progress' = TRUE
    /\ evaluate_single' = FALSE
    /\ selected_student_idx' = 0
    /\ students_to_evaluate' = students
    /\ loop_idx' = 0
    /\ calls' = <<>>
    /\ endpoint_calls' = 0
    /\ had_entry' = RollsOfResults
    /\ UNCHANGED <<GEMINI_API_KEY, students, rubric, questions_dict, criteria_list,
                   response, outcome, exported>>

\* lines 295-299, 302-309: Evaluate on the student at position idx (from 1)
EvaluateButton(idx) ==
    /\ Idle
    /\ ready_for_evaluation
    /\ idx \in 1..Len(students)
    /\ results' = SelectSeq(results,
                     LAMBDA r : r.student.roll_number # students[idx].roll_number)
    /\ evaluation_in_progress' = TRUE
    /\ selected_student_idx' = idx
    /\ evaluate_single' = TRUE
    /\ students_to_evaluate' = <<students[idx]>>
    /\ loop_idx' = 0
    /\ calls' = <<>>
    /\ endpoint_calls' = 0
    /\ had_entry' = RollsOfResults
    /\ UNCHANGED <<GEMINI_API_KEY, students, rubric, questions_dict, criteria_list,
                   response, outcome, exported>>

\* lines 326-334: the scores of the entries with a question_id
RECURSIVE scores_of(_)
scores_of(entries) ==
    IF entries = <<>>
    THEN <<>>
    ELSE LET q_result == entries[Len(entries)]
             before == scores_of(SubSeq(entries, 1, Len(entries) - 1))
             q_id == get(q_result, "question_id", "")
         IN  IF Truthy(q_id)
             THEN DictSet(before, q_id, get(q_result, "score", Num(0)))
             ELSE before

\* feedback_of with the feedback stored outside the test of line 332
RECURSIVE feedback_of_every_entry(_)
feedback_of_every_entry(entries) ==
    IF entries = <<>>
    THEN <<>>
    ELSE LET q_result == entries[Len(entries)]
             before == feedback_of_every_entry(SubSeq(entries, 1, Len(entries) - 1))
         IN  DictSet(before, get(q_result, "question_id", ""),
                     get(q_result, "feedback", ""))

\* lines 326-334: the feedback of the entries with a question_id
RECURSIVE feedback_of(_)
feedback_of(entries) ==
    IF entries = <<>>
    THEN <<>>
    ELSE LET q_result == entries[Len(entries)]
             before == feedback_of(SubSeq(entries, 1, Len(entries) - 1))
             q_id == get(q_result, "question_id", "")
         IN  IF Truthy(q_id)
             THEN DictSet(before, q_id, get(q_result, "feedback", ""))
             ELSE before

\* build_result giving every rubric question a zero score when the
\* outcome has no results
build_result_zero_fill(student, result_json) ==
    LET entries == get(result_json, "results", <<>>)
    IN  EvaluationResult(student,
                         IF entries = <<>>
                         THEN [i \in 1..Len(questions_dict) |-> <<questions_dict[i][1], Num(0)>>]
                         ELSE scores_of(entries),
                         IF entries = <<>>
                         THEN [i \in 1..Len(questions_dict) |-> <<questions_dict[i][1], "">>]
                         ELSE feedback_of(entries),
                         get(result_json, "overall_feedback", ""),
                         result_json)

\* lines 326-343: the EvaluationResult built from the outcome of a call
build_result(student, result_json) ==
    LET entries == get(result_json, "results", <<>>)
    IN  EvaluationResult(student,
                         scores_of(entries),
                         feedback_of(entries),
                         get(result_json, "overall_feedback", ""),
                         result_json)

\* results_after putting the new result first
results_after_prepend(res, student, r) ==
    IF Raises(r)
    THEN res
    ELSE <<build_result(student, r.returned)>> \o res

\* lines 318-345, 366-370: the result collection after one student; r is
\* what evaluate_with_gemini did
results_after(res, student, r) ==
    IF Raises(r)
    THEN res
    ELSE Append(res, build_result(student, r.returned))

\* loop_idx_after leaving the loop at the first failed evaluation
loop_idx_abort_on_failure(idx, r) ==
    IF Raises(r) \/ "error" \in DOMAIN r.returned
    THEN Len(students_to_evaluate)
    ELSE idx + 1

\* lines 314, 366: the loop goes on to the next student whatever r was
loop_idx_after(idx, r) == idx + 1

\* lines 314-370: the loop evaluates its next student, the endpoint answering resp
LoopStep(resp) ==
    /\ evaluation_in_progress
    /\ loop_idx < Len(students_to_evaluate)
    /\ LET student == students_to_evaluate[loop_idx + 1]
           r == evaluate_with_gemini(student.pdf_bytes, questions_dict,
                                     criteria_list, resp)
       IN  /\ results' = results_after(results, student, r)
           /\ loop_idx' = loop_idx_after(loop_idx, r)
           /\ calls' = Append(calls, [roll_number |-> student.roll_number,
                                      raised |-> Raises(r),
                                      error |-> ~Raises(r) /\ "error" \in DOMAIN r.returned])
           /\ endpoint_calls' = endpoint_calls + (IF credential_missing THEN 0 ELSE 1)
    /\ UNCHANGED <<GEMINI_API_KEY, students, rubric, questions_dict, criteria_list,
                   evaluation_in_progress, evaluate_single, selected_student_idx,
                   students_to_evaluate, response, outcome, had_entry, exported>>

\* lines 372-373: the loop is over; its locals and its history go
LoopEnd ==
    /\ evaluation_in_progress
    /\ loop_idx >= Len(students_to_evaluate)
    /\ evaluation_in_progress' = FALSE
    /\ students_to_evaluate' = <<>>
    /\ loop_idx' = 0
    /\ calls' = <<>>
    /\ endpoint_calls' = 0
    /\ had_entry' = {}
    /\ UNCHANGED <<GEMINI_API_KEY, students, rubric, results, questions_dict,
                   criteria_list, evaluate_single, selected_student_idx,
                   response, outcome, exported>>

\* lines 452-456, 488-492: the rows of the editor written back to a result;
\* the row of q_id holds the edited score and feedback, every other row
\* what was displayed
RECURSIVE apply_rows(_, _, _, _, _)
apply_rows(result, row_ids, q_id, score, feedback) ==
    IF row_ids = <<>>
    THEN result
    ELSE LET before == apply_rows(result, SubSeq(row_ids, 1, Len(row_ids) - 1),
                                  q_id, score, feedback)
             row_id == row_ids[Len(row_ids)]
             row_score == IF row_id = q_id THEN score ELSE Lookup(result.scores, row_id)
             row_feedback == IF row_id = q_id THEN feedback
                             ELSE DictGet(result.feedback, row_id, "")
         IN  [before EXCEPT !.scores = DictSet(before.scores, row_id, row_score),
                            !.feedback = DictSet(before.feedback, row_id, row_feedback)]

\* lines 428-456, 460-492: an edit of the row of q_id in the result at position i;
\* the script is run again and the download payloads are computed anew (499-519)
EditResult(i, q_id, score, feedback) ==
    /\ Idle
    /\ i \in 1..Len(results)
    /\ HasKey(results[i].scores, q_id)
    /\ results' = [results EXCEPT
                      ![i] = apply_rows(results[i], Keys(results[i].scores),
                                        q_id, score, feedback)]
    /\ exported' = NotExported
    /\ UNCHANGED <<GEMINI_API_KEY, students, rubric, questions_dict, criteria_list,
                   evaluation_in_progress, evaluate_single, selected_student_idx,
                   students_to_evaluate, loop_idx, response, outcome, calls,
                   endpoint_calls, had_entry>>

Next ==
    \/ \E f \in FileNames, roll \in RollInputs : SaveStudent(f, roll)
    \/ \E q_id \in QuestionIdInputs, q \in QuestionTextInputs, a \in AnswerInputs :
          AddQuestion(q_id, q, a)
    \/ \E q_id \in QuestionIds : DeleteQuestion(q_id)
    \/ \E r_id \in RubricIdInputs, t \in TitleInputs, e \in ExplanationInputs :
          AddCriteria(r_id, t, e)
    \/ \E i \in 1..MaxCriteria : DeleteCriteria(i)
    \/ SaveRubric
    \/ RunAllButton
    \/ \E idx \in 1..MaxStudents : EvaluateButton(idx)
    \/ \E resp \in SessionResponses : LoopStep(resp)
    \/ LoopEnd
    \/ \E i \in 1..Len(results) : \E q_id \in KeySet(results[i].scores) :
          \E score \in EditedScores \cup {Lookup(results[i].scores, q_id)},
             feedback \in EditedFeedback \cup {DictGet(results[i].feedback, q_id, "")} :
                EditResult(i, q_id, score, feedback)

Spec == Init /\ [][Next]_vars

\* the rubric editor alone, with two question texts, two titles and the
\* rubric id of the second position
RubricQuestionTexts == QuestionTextInputs \cup {"Why?"}

RubricTitles == TitleInputs \cup {"Depth"}

RubricIds == RubricIdInputs \cup {"R2"}

NextRubric ==
    \/ \E q_id \in QuestionIdInputs, q \in RubricQuestionTexts, a \in AnswerInputs :
          AddQuestion(q_id, q, a)
    \/ \E q_id \in QuestionIds : DeleteQuestion(q_id)
    \/ \E r_id \in RubricIds, t \in RubricTitles, e \in ExplanationInputs :
          AddCriteria(r_id, t, e)
    \/ \E i \in 1..MaxCriteria : DeleteCriteria(i)
    \/ SaveRubric

SpecRubric == Init /\ [][NextRubric]_vars

\* lines 387-393: the scores collected for q_id over the result collection
RECURSIVE all_scores(_, _)
all_scores(res, q_id) ==
    IF res = <<>>
    THEN <<>>
    ELSE LET before == all_scores(SubSeq(res, 1, Len(res) - 1), q_id)
             result == res[Len(res)]
         IN  IF HasKey(result.scores, q_id)
             THEN Append(before, Lookup(result.scores, q_id))
             ELSE before

----------------------------------------------------------------------------
(* csv_utils.py *)

(* A row is a dict from column to cell, held as a sequence of              *)
(* <<column, cell>> pairs; a cell is <<"num", n>> or <<"str", s>>.  A CSV  *)
(* text is held as its header, the sequence of column names, and its       *)
(* lines, one sequence of fields per row.                                  *)

\* Python's order on the strings that are question ids here
PyStringOrder == <<"", "Q1", "Q2", "Q9">>

\* sorted(list(ids))
sorted(ids) == SelectSeq(PyStringOrder, LAMBDA q : q \in ids)

\* pd.DataFrame(rows): the columns are the keys of the rows in the order
\* of their first appearance
RECURSIVE DataFrame_columns(_)
DataFrame_columns(rows) ==
    IF rows = <<>>
    THEN <<>>
    ELSE LET before == DataFrame_columns(SubSeq(rows, 1, Len(rows) - 1))
             seen == {before[i] : i \in 1..Len(before)}
         IN  before \o SelectSeq(Keys(rows[Len(rows)]), LAMBDA c : c \notin seen)

\* a cell as to_csv writes it
csv_field(cell) == IF cell[1] = "num" THEN ToString(cell[2]) ELSE cell[2]

\* pd.DataFrame(rows).to_csv(index=False); a row without a column has NaN
\* there, written as the empty field
to_csv(rows) ==
    LET columns == DataFrame_columns(rows)
    IN  [header |-> columns,
         lines |-> [i \in 1..Len(rows) |->
                      [c \in 1..Len(columns) |->
                          csv_field(DictGet(rows[i], columns[c], Str("")))]]]

\* lines 22-31: the rows of one result, in the iteration order of its scores
question_rows(result) ==
    [k \in 1..Len(result.scores) |->
        <<<<"Student Name", Str(result.student.name)>>,
          <<"Roll Number", Str(result.student.roll_number)>>,
          <<"PDF Filename", Str(result.student.pdf_filename)>>,
          <<"Question ID", Str(result.scores[k][1])>>,
          <<"Score", result.scores[k][2]>>,
          <<"Feedback", Str(DictGet(result.feedback, result.scores[k][1], ""))>>>>]

\* lines 7-33
RECURSIVE format_output_for_csv(_)
format_output_for_csv(res) ==
    IF res = <<>>
    THEN <<>>
    ELSE format_output_for_csv(SubSeq(res, 1, Len(res) - 1))
             \o question_rows(res[Len(res)])

\* lines 52-59: the overall feedback row of one result
overall_feedback_row(result) ==
    <<<<"Student Name", Str(result.student.name)>>,
      <<"Roll Number", Str(result.student.roll_number)>>,
      <<"PDF Filename", Str(result.student.pdf_filename)>>,
      <<"Question ID", Str("OVERALL_FEEDBACK")>>,
      <<"Score", Str("")>>,
      <<"Feedback", Str(result.overall_feedback)>>>>

\* export_results_to_csv writing the overall feedback row of a result right
\* after the question rows of that result
RECURSIVE export_rows_trailer_per_student(_)
export_rows_trailer_per_student(res) ==
    IF res = <<>>
    THEN <<>>
    ELSE export_rows_trailer_per_student(SubSeq(res, 1, Len(res) - 1))
             \o question_rows(res[Len(res)])
             \o <<overall_feedback_row(res[Len(res)])>>

\* lines 48-59: the rows of the detailed export
export_rows(res) ==
    format_output_for_csv(res) \o [i \in 1..Len(res) |-> overall_feedback_row(res[i])]

\* lines 35-67
export_results_to_csv(res) == to_csv(export_rows(res))

\* lines 85-89: the question ids of all results, sorted
all_question_ids(res) ==
    sorted(UNION {KeySet(res[i].scores) : i \in 1..Len(res)})

\* pivot_row writing 0 for a score the result does not have
pivot_row_zero_fill(result, ids) ==
    <<<<"Student Name", Str(result.student.name)>>,
      <<"Roll Number", Str(result.student.roll_number)>>,
      <<"Overall Feedback", Str(result.overall_feedback)>>>>
    \o [k \in 1..(2 * Len(ids)) |->
          LET q_id == ids[(k + 1) \div 2]
          IN  IF k % 2 = 1
              THEN <<"Score_" \o q_id, DictGet(result.scores, q_id, Num(0))>>
              ELSE <<"Feedback_" \o q_id, Str(DictGet(result.feedback, q_id, ""))>>]

\* lines 94-105: the row of one result in the pivot table
pivot_row(result, ids) ==
    <<<<"Student Name", Str(result.student.name)>>,
      <<"Roll Number", Str(result.student.roll_number)>>,
      <<"Overall Feedback", Str(result.overall_feedback)>>>>
    \o [k \in 1..(2 * Len(ids)) |->
          LET q_id == ids[(k + 1) \div 2]
          IN  IF k % 2 = 1
              THEN <<"Score_" \o q_id, DictGet(result.scores, q_id, Str(""))>>
              ELSE <<"Feedback_" \o q_id, Str(DictGet(result.feedback, q_id, ""))>>]

\* lines 69-113
export_results_to_pivot_table(res) ==
    to_csv([i \in 1..Len(res) |-> pivot_row(res[i], all_question_ids(res))])

\* json.dumps(value, indent=2): the values written here are strings, numbers,
\* lists and dicts with string keys, which json.loads gives back as they were
json_dumps(value) == [chars |-> "json", denotes |-> value]

\* student_evaluations taking the evaluations from the normalized response
\* kept in the result instead of from its scores
student_evaluations_from_raw_response(result) ==
    LET entries == get(result.raw_response, "results", <<>>)
    IN  [k \in 1..Len(entries) |->
            [question_id |-> entries[k].question_id,
             score |-> entries[k].score,
             feedback |-> entries[k].feedback]]

\* lines 134-140: the evaluations of one result, in the iteration order of
\* its scores
student_evaluations(result) ==
    [k \in 1..Len(result.scores) |->
        [question_id |-> result.scores[k][1],
         score |-> result.scores[k][2],
         feedback |-> DictGet(result.feedback, result.scores[k][1], "")]]

\* lines 115-152
export_results_to_json(res) ==
    json_dumps([i \in 1..Len(res) |->
                   [student |-> [name |-> res[i].student.name,
                                 roll_number |-> res[i].student.roll_number,
                                 pdf_filename |-> res[i].student.pdf_filename],
                    evaluations |-> student_evaluations(res[i]),
                    overall_feedback |-> res[i].overall_feedback]])

----------------------------------------------------------------------------
(* app.py, Results tab: the export projections of a result collection *)

\* lines 381, 499-506: Download Detailed CSV
DownloadDetailedCsv ==
    /\ Idle
    /\ results # <<>>
    /\ exported' = [format |-> "detailed", text |-> export_results_to_csv(results)]
    /\ UNCHANGED <<GEMINI_API_KEY, students, rubric, results, questions_dict,
                   criteria_list, evaluation_in_progress, evaluate_single,
                   selected_student_idx, students_to_evaluate, loop_idx, response,
                   outcome, calls, endpoint_calls, had_entry>>

\* lines 381, 508-516: Download Pivot Table CSV
DownloadPivotCsv ==
    /\ Idle
    /\ results # <<>>
    /\ exported' = [format |-> "pivot", text |-> export_results_to_pivot_table(results)]
    /\ UNCHANGED <<GEMINI_API_KEY, students, rubric, results, questions_dict,
                   criteria_list, evaluation_in_progress, evaluate_single,
                   selected_student_idx, students_to_evaluate, loop_idx, response,
                   outcome, calls, endpoint_calls, had_entry>>

\* lines 381, 518-526: Download JSON Data
DownloadJson ==
    /\ Idle
    /\ results # <<>>
    /\ exported' = [format |-> "json", text |-> export_results_to_json(results)]
    /\ UNCHANGED <<GEMINI_API_KEY, students, rubric, results, questions_dict,
                   criteria_list, evaluation_in_progress, evaluate_single,
                   selected_student_idx, students_to_evaluate, loop_idx, response,
                   outcome, calls, endpoint_calls, had_entry>>

\* the student at position i of a class list
ExportStudent(i) ==
    Student("Student-10" \o ToString(i), "10" \o ToString(i),
            ToString(i) \o ".pdf", "bytes of " \o ToString(i) \o ".pdf")

\* a complete entry of a structured answer
ExportItem(q_id, n) == [question_id |-> q_id, score |-> Num(n), feedback |-> "good"]

\* the endpoint behaviours the exported collections come from: the call
\* throws, or it returns a structured answer about Q1 then Q2, about Q2 then
\* Q1, about Q1 without a score, or about a question of no rubric
ExportResponses ==
    {[raises |-> "503 Service Unavailable"]}
    \cup {[py_type |-> "GenerateContentResponse",
           parsed |-> [question_evaluations |-> es, overall_feedback |-> "fine"]] :
              es \in {<<ExportItem("Q1", 8), ExportItem("Q2", 6)>>,
                      <<ExportItem("Q2", 9), ExportItem("Q1", 5)>>,
                      <<[question_id |-> "Q1", feedback |-> "good"]>>,
                      <<ExportItem("Q9", 7)>>}}

\* the session after Run AI Evaluation for All Students on a class of at
\* most MaxStudents students, each answered in one of the ExportResponses
InitExport ==
    /\ GEMINI_API_KEY = "key"
    /\ questions_dict = <<<<"Q1", QuestionRubric("What?", "answer")>>,
                          <<"Q2", QuestionRubric("Why?", "answer")>>>>
    /\ criteria_list = <<RubricCriteria("Clarity", "Is it clear?")>>
    /\ rubric = "Rubric(questions_dict, criteria_list)"
    /\ students \in {[i \in 1..n |-> ExportStudent(i)] : n \in 1..MaxStudents}
    /\ results \in
          {[i \in 1..Len(students) |->
               build_result(students[i],
                            evaluate_with_gemini(students[i].pdf_bytes, questions_dict,
                                                 criteria_list, resps[i]).returned)] :
              resps \in [1..Len(students) -> ExportResponses]}
    /\ evaluation_in_progress = FALSE
    /\ evaluate_single = FALSE
    /\ selected_student_idx = 0
    /\ students_to_evaluate = <<>>
    /\ loop_idx = 0
    /\ response = NotCalled
    /\ outcome = NotCalled
    /\ calls = <<>>
    /\ endpoint_calls = 0
    /\ had_entry = {}
    /\ exported = NotExported

NextExport ==
    \/ DownloadDetailedCsv
    \/ DownloadPivotCsv
    \/ DownloadJson
    \/ \E i \in 1..Len(results) : \E q_id \in KeySet(results[i].scores) :
          \E score \in EditedScores, feedback \in EditedFeedback :
              EditResult(i, q_id, score, feedback)

SpecExport == InitExport /\ [][NextExport]_vars

----------------------------------------------------------------------------
(* Claims about evaluate_with_gemini, under SpecEval *)

Called == outcome # NotCalled

Returned == "returned" \in DOMAIN outcome

IsErrorOutcome(o) ==
    /\ "error" \in DOMAIN o
    /\ o.error # ""
    /\ o.results = <<>>
    /\ o.overall_feedback = "Error occurred during evaluation."

\* C1 as stated: evaluate_with_gemini never propagates an exception,
\* whatever the credential, the endpoint behaviour and the response content.
C1_NeverRaises == ~Raises(outcome)

\* C1 amended: with the credential present every call returns an outcome
\* (a results list and an overall feedback), whatever the endpoint does;
\* with the credential missing the call raises the ValueError of line 93.
C1_RaisesOnlyWithoutCredential ==
    Called =>
        IF Truthy(GEMINI_API_KEY)
        THEN /\ Returned
             /\ {"results", "overall_feedback"} \subseteq DOMAIN outcome.returned
        ELSE outcome = Raise("GEMINI_API_KEY not set in environment.")

\* the endpoint call throws and the caller still gets an outcome back
C1_Witness ==
    /\ Truthy(GEMINI_API_KEY)
    /\ "raises" \in DOMAIN response
    /\ Returned
    /\ "error" \in DOMAIN outcome.returned

\* a structured object that is no answer of the schema: not an answer
\* object at all, an entry that is no object, or a score that is no number
\* (a key that is missing is not counted: section 4.3 fills it in)
ViolatesSchema(v) ==
    IF isinstance_dict(v)
    THEN LET evals == get(v, "question_evaluations", <<>>)
         IN  \E i \in 1..Len(evals) :
                \/ ~isinstance_dict(evals[i])
                \/ /\ "score" \in DOMAIN evals[i]
                   /\ evals[i].score[1] # "num"
    ELSE v.py_type # "PydanticEvaluationResponse"

FailureCase(resp) ==
    \/ "raises" \in DOMAIN resp
    \/ /\ hasattr(resp, "text")
       /\ "denotes" \notin DOMAIN resp.text
    \/ /\ hasattr(resp, "parsed")
       /\ ViolatesSchema(resp.parsed)

\* C2: when the endpoint call throws, the raw text is no JSON or the
\* structured object violates the schema, the outcome returned has a
\* non-empty error, no results and the fixed fallback overall feedback.
C2_FailureGivesErrorOutcome ==
    (Called /\ Truthy(GEMINI_API_KEY) /\ FailureCase(response)) =>
        (Returned /\ IsErrorOutcome(outcome.returned))

\* C9: no entry without a question_id (missing or empty) is in the results
\* of a returned outcome, on the structured path as on the raw-JSON path.
C9_NoIdDropped ==
    Returned =>
        \A i \in 1..Len(outcome.returned.results) :
            outcome.returned.results[i].question_id # ""

\* the entries of evals whose question_id is in keyset, in order
RECURSIVE EntriesWithKnownId(_, _)
EntriesWithKnownId(evals, keyset) ==
    IF evals = <<>>
    THEN <<>>
    ELSE LET e == Head(evals)
             rest == EntriesWithKnownId(Tail(evals), keyset)
         IN  IF "question_id" \in DOMAIN e /\ e.question_id \in keyset
             THEN <<e>> \o rest
             ELSE rest

\* the raw-JSON path was taken and ended without an error
RawAnswered ==
    /\ Called
    /\ hasattr(response, "text")
    /\ Returned
    /\ "error" \notin DOMAIN outcome.returned

\* C10: on the raw-JSON path the results are exactly the entries of
\* question_evaluations whose question_id is a key of the questions map,
\* in their original order, each with its id, score and feedback.
C10_RawKeepsKnownIdsInOrder ==
    RawAnswered =>
        LET evals == get(response.text.denotes, "question_evaluations", <<>>)
            kept == EntriesWithKnownId(evals, KeySet(questions_dict))
            res == outcome.returned.results
        IN  /\ Len(res) = Len(kept)
            /\ \A i \in 1..Len(kept) :
                  /\ res[i].question_id = kept[i].question_id
                  /\ "score" \in DOMAIN kept[i] => res[i].score = kept[i].score
                  /\ "feedback" \in DOMAIN kept[i] => res[i].feedback = kept[i].feedback

\* an answer of two entries, one of a rubric question and one of no rubric
\* question: the first is kept and the second dropped
C10_Witness ==
    /\ RawAnswered
    /\ Len(get(response.text.denotes, "question_evaluations", <<>>)) = 2
    /\ get(response.text.denotes.question_evaluations[2], "question_id", "") = "Q9"
    /\ Len(outcome.returned.results) = 1
    /\ outcome.returned.results[1].question_id = "Q1"

\* the structured path was taken and ended without an error
StructuredAnswered ==
    /\ Called
    /\ hasattr(response, "parsed")
    /\ Returned
    /\ "error" \notin DOMAIN outcome.returned

\* the question evaluations of a structured answer, a dict or an object
StructuredEvaluations ==
    IF isinstance_dict(response.parsed)
    THEN get(response.parsed, "question_evaluations", <<>>)
    ELSE response.parsed.question_evaluations

\* C11: on the structured path the results are all the question
\* evaluations of the answer, in order, each with the question text of its
\* id in the questions map, or "Unknown question" when the map has no such id.
C11_StructuredKeepsAllWithQuestion ==
    StructuredAnswered =>
        LET evals == StructuredEvaluations
            res == outcome.returned.results
        IN  /\ Len(res) = Len(evals)
            /\ \A i \in 1..Len(evals) :
                  /\ res[i].question_id = get(evals[i], "question_id", "")
                  /\ "score" \in DOMAIN evals[i] => res[i].score = evals[i].score
                  /\ "feedback" \in DOMAIN evals[i] => res[i].feedback = evals[i].feedback
                  /\ res[i].question =
                        IF res[i].question_id \in KeySet(questions_dict)
                        THEN Lookup(questions_dict, res[i].question_id).question
                        ELSE "Unknown question"

\* a structured answer about a question of no rubric and then about Q1,
\* with Q1 in the rubric: both are kept, in that order
C11_Witness ==
    /\ StructuredAnswered
    /\ Len(outcome.returned.results) = 2
    /\ outcome.returned.results[1].question_id = "Q9"
    /\ outcome.returned.results[1].question = "Unknown question"
    /\ outcome.returned.results[2].question_id = "Q1"
    /\ outcome.returned.results[2].question = "What?"

\* an answer object whose entries are objects: keys may be missing
WellFormedAnswer(v) ==
    /\ isinstance_dict(v)
    /\ \A i \in 1..Len(get(v, "question_evaluations", <<>>)) :
          isinstance_dict(v.question_evaluations[i])

\* the answer object of a response, structured or raw text
AnswerOf(resp) ==
    IF hasattr(resp, "parsed")
    THEN resp.parsed
    ELSE IF hasattr(resp, "text") /\ "denotes" \in DOMAIN resp.text
    THEN resp.text.denotes
    ELSE None

\* the entries of the answer that the outcome has a result for: all of them
\* on the structured path, those of a rubric question on the raw-JSON path
AnswerEntriesKept ==
    LET evals == get(AnswerOf(response), "question_evaluations", <<>>)
    IN  IF hasattr(response, "parsed")
        THEN evals
        ELSE EntriesWithKnownId(evals, KeySet(questions_dict))

\* C12: a well-formed answer with keys missing is no failure, on either
\* path: the outcome has no error, a result of an entry without score has
\* score 0, a result of an entry without feedback has feedback "", and
\* overall_feedback is "" when the answer has none.
C12_MissingFieldsDefaulted ==
    (Called /\ Truthy(GEMINI_API_KEY) /\ WellFormedAnswer(AnswerOf(response))) =>
        /\ Returned
        /\ "error" \notin DOMAIN outcome.returned
        /\ outcome.returned.overall_feedback =
               get(AnswerOf(response), "overall_feedback", "")
        /\ Len(outcome.returned.results) = Len(AnswerEntriesKept)
        /\ \A i \in 1..Len(AnswerEntriesKept) :
              /\ "score" \notin DOMAIN AnswerEntriesKept[i] =>
                    outcome.returned.results[i].score = Num(0)
              /\ "feedback" \notin DOMAIN AnswerEntriesKept[i] =>
                    outcome.returned.results[i].feedback = ""

\* a raw-text answer without overall_feedback whose entry for Q1 has no
\* score and whose entry for Q2 has no feedback
C12_Witness ==
    /\ RawAnswered
    /\ "overall_feedback" \notin DOMAIN response.text.denotes
    /\ outcome.returned.overall_feedback = ""
    /\ Len(outcome.returned.results) = 2
    /\ "score" \notin DOMAIN response.text.denotes.question_evaluations[1]
    /\ outcome.returned.results[1].score = Num(0)
    /\ "feedback" \notin DOMAIN response.text.denotes.question_evaluations[2]
    /\ outcome.returned.results[2].feedback = ""

----------------------------------------------------------------------------
(* Claims about the session, under Spec *)

\* the running loop has evaluated every student it was given
LoopDone == evaluation_in_progress /\ loop_idx = Len(students_to_evaluate)

EntriesOfRoll(roll) == {i \in 1..Len(results) : results[i].student.roll_number = roll}

\* C3: with the credential missing no call reaches the endpoint, and the
\* loop records for every student it has evaluated an entry of the error
\* shape: an error outcome, no scores, the fallback overall feedback.
C3_MissingCredentialRecorded ==
    (credential_missing /\ evaluation_in_progress) =>
        /\ endpoint_calls = 0
        /\ \A c \in 1..Len(calls) :
              \E i \in EntriesOfRoll(calls[c].roll_number) :
                 /\ IsErrorOutcome(results[i].raw_response)
                 /\ results[i].scores = <<>>
                 /\ results[i].overall_feedback = "Error occurred during evaluation."

\* C4: when a loop has re-evaluated a roll number that already had an
\* entry, the result collection holds exactly one entry for it.
C4_OneEntryAfterRerun ==
    LoopDone =>
        \A c \in 1..Len(calls) :
            calls[c].roll_number \in had_entry =>
                Cardinality(EntriesOfRoll(calls[c].roll_number)) = 1

\* C5: in every state every EvaluationResult of the result collection has
\* the same keys in scores and in feedback.
C5_SameKeySets ==
    \A i \in 1..Len(results) :
        KeySet(results[i].scores) = KeySet(results[i].feedback)

\* a result whose score and whose feedback were both edited by hand
C5_Witness ==
    \E i \in 1..Len(results) :
        /\ DictGet(results[i].scores, "Q1", Num(0)) = Num(10)
        /\ DictGet(results[i].feedback, "Q1", "") = "edited"

\* C6: from Run AI Evaluation for All Students on, the results are in the
\* order of the student list: the i-th result is the i-th student's, and
\* when the loop is done with the credential present every student has one.
C6_ResultsInStudentOrder ==
    ~evaluate_single =>
        /\ Len(results) <= Len(students)
        /\ \A i \in 1..Len(results) : results[i].student = students[i]
        /\ (LoopDone /\ ~credential_missing) => Len(results) = Len(students)

\* Run AI Evaluation for All Students is done with two students of
\* different roll numbers
C6_Witness ==
    /\ LoopDone
    /\ ~evaluate_single
    /\ Len(results) = 2
    /\ results[1].student.roll_number # results[2].student.roll_number

\* a call of evaluate_with_gemini that failed
Failed(call) == call.raised \/ call.error

\* what holds of the calls made by a running loop: one per finished
\* student, in the order of the list, none skipped
C7_EveryStudentPassed ==
    evaluation_in_progress =>
        /\ loop_idx <= Len(students_to_evaluate)
        /\ Len(calls) = loop_idx
        /\ \A i \in 1..Len(calls) :
              calls[i].roll_number = students_to_evaluate[i].roll_number
        /\ ~evaluate_single => students_to_evaluate = students

\* C7: a failed evaluation does not abort the loop: every student, also
\* after a failing one, is passed to evaluate_with_gemini, and the step
\* that follows the last student sets evaluation_in_progress to false.
C7_FailureDoesNotAbort ==
    /\ []C7_EveryStudentPassed
    /\ [][LoopDone => ~evaluation_in_progress']_vars

\* the first of two students failed and the second was evaluated all the same
C7_Witness ==
    /\ LoopDone
    /\ ~evaluate_single
    /\ Len(calls) = 2
    /\ Failed(calls[1])

\* a result recorded for a failed evaluation
FailedEntry(result) == "error" \in DOMAIN result.raw_response

\* C8: a failed evaluation adds no score to any aggregate: the entry of an
\* error outcome has no scores and no feedback, a call that raised left no
\* entry, and the number of evaluations of a question counts the entries
\* that did not fail and have it.
C8_FailedContributesNoScore ==
    /\ \A i \in 1..Len(results) :
          FailedEntry(results[i]) =>
              results[i].scores = <<>> /\ results[i].feedback = <<>>
    /\ (\E c \in 1..Len(calls) : calls[c].raised) => results = <<>>
    /\ \A q_id \in ResponseIds :
          Len(all_scores(results, q_id)) =
              Cardinality({i \in 1..Len(results) :
                              ~FailedEntry(results[i]) /\ HasKey(results[i].scores, q_id)})

\* a failed entry beside an entry with a score
C8_Witness ==
    /\ Len(results) = 2
    /\ FailedEntry(results[1])
    /\ HasKey(results[2].scores, "Q1")

----------------------------------------------------------------------------
(* Claims about the export projections, under SpecExport *)

\* the position of a column in the header of a CSV text
ColumnOf(t, column) == CHOOSE c \in 1..Len(t.header) : t.header[c] = column

\* the field of line l of a CSV text under a column
Field(t, l, column) == t.lines[l][ColumnOf(t, column)]

\* a score as a CSV field shows it
ScoreText(score) == IF score[1] = "num" THEN ToString(score[2]) ELSE score[2]

\* the question ids that have a score in some result
UnionIds == UNION {KeySet(results[i].scores) : i \in 1..Len(results)}

\* the rank of a question id in ascending order
OrderIndex(q_id) == CHOOSE k \in 1..Len(PyStringOrder) : PyStringOrder[k] = q_id

\* C14: the pivot projection has one row per result, in input order; its
\* columns are the three student columns and Score_<id>, Feedback_<id> for
\* every id of the union of the scores keys, in ascending order of id; a
\* result without the id has the empty field in both, and not a zero.
C14_PivotOneRowPerResult ==
    exported.format = "pivot" =>
        LET t == exported.text
        IN  /\ Len(t.lines) = Len(results)
            /\ Len(t.header) = 3 + 2 * Cardinality(UnionIds)
            /\ {t.header[c] : c \in 1..Len(t.header)} =
                  {"Student Name", "Roll Number", "Overall Feedback"}
                  \cup {"Score_" \o q : q \in UnionIds}
                  \cup {"Feedback_" \o q : q \in UnionIds}
            /\ \A a \in UnionIds, b \in UnionIds :
                  OrderIndex(a) < OrderIndex(b) =>
                      /\ ColumnOf(t, "Score_" \o a) < ColumnOf(t, "Feedback_" \o a)
                      /\ ColumnOf(t, "Feedback_" \o a) < ColumnOf(t, "Score_" \o b)
            /\ \A i \in 1..Len(results) :
                  /\ Field(t, i, "Roll Number") = results[i].student.roll_number
                  /\ \A q \in UnionIds :
                        IF HasKey(results[i].scores, q)
                        THEN /\ Field(t, i, "Score_" \o q) =
                                    ScoreText(Lookup(results[i].scores, q))
                             /\ Field(t, i, "Feedback_" \o q) =
                                    Lookup(results[i].feedback, q)
                        ELSE /\ Field(t, i, "Score_" \o q) = ""
                             /\ Field(t, i, "Feedback_" \o q) = ""

\* the pivot table of a student answered about Q2 then Q1 and a student
\* answered about Q1 alone, with the score 0: the second has an empty
\* Score_Q2 and a Score_Q1 of 0
C14_Witness ==
    /\ exported.format = "pivot"
    /\ Len(results) = 2
    /\ Keys(results[1].scores) = <<"Q2", "Q1">>
    /\ Keys(results[2].scores) = <<"Q1">>
    /\ Field(exported.text, 2, "Score_Q1") = "0"
    /\ Field(exported.text, 2, "Score_Q2") = ""
    /\ ColumnOf(exported.text, "Score_Q1") < ColumnOf(exported.text, "Score_Q2")

\* the number of score entries of the results before position i
RECURSIVE ScoresBefore(_)
ScoresBefore(i) ==
    IF i <= 1 THEN 0 ELSE ScoresBefore(i - 1) + Len(results[i - 1].scores)

\* C15: the detailed export has, for the results in input order, one row
\* per key of scores in iteration order, and after all of them one row per
\* result in input order with Question ID OVERALL_FEEDBACK, an empty Score
\* and the overall feedback; that is the sum of the sizes of the scores
\* mappings plus the number of results rows.
C15_DetailedRowsThenTrailers ==
    exported.format = "detailed" =>
        LET t == exported.text
            n == ScoresBefore(Len(results) + 1)
        IN  /\ Len(t.lines) = n + Len(results)
            /\ \A i \in 1..Len(results) :
                  /\ \A k \in 1..Len(results[i].scores) :
                        LET l == ScoresBefore(i) + k
                            q_id == results[i].scores[k][1]
                        IN  /\ Field(t, l, "Roll Number") = results[i].student.roll_number
                            /\ Field(t, l, "Question ID") = q_id
                            /\ Field(t, l, "Score") = ScoreText(results[i].scores[k][2])
                            /\ Field(t, l, "Feedback") = Lookup(results[i].feedback, q_id)
                  /\ Field(t, n + i, "Roll Number") = results[i].student.roll_number
                  /\ Field(t, n + i, "Question ID") = "OVERALL_FEEDBACK"
                  /\ Field(t, n + i, "Score") = ""
                  /\ Field(t, n + i, "Feedback") = results[i].overall_feedback

\* the detailed export of a student answered about Q2 then Q1 and a student
\* answered about Q1: three question rows, then two trailer rows
C15_Witness ==
    /\ exported.format = "detailed"
    /\ Len(results) = 2
    /\ Keys(results[1].scores) = <<"Q2", "Q1">>
    /\ Keys(results[2].scores) = <<"Q1">>
    /\ Len(exported.text.lines) = 5
    /\ Field(exported.text, 1, "Question ID") = "Q2"
    /\ Field(exported.text, 4, "Question ID") = "OVERALL_FEEDBACK"

\* the (roll_number, question_id, score, feedback) tuples of one student
\* object of a parsed JSON export
ParsedTuples(student_result) ==
    [k \in 1..Len(student_result.evaluations) |->
        <<student_result.student.roll_number,
          student_result.evaluations[k].question_id,
          student_result.evaluations[k].score,
          student_result.evaluations[k].feedback>>]

\* the tuples of one EvaluationResult
SourceTuples(result) ==
    [k \in 1..Len(result.scores) |->
        <<result.student.roll_number,
          result.scores[k][1],
          result.scores[k][2],
          Lookup(result.feedback, result.scores[k][1])>>]

----------------------------------------------------------------------------
(* Claims about the rubric editor, under SpecRubric *)

\* C17: once a rubric is saved, no step that adds, overwrites or deletes a
\* question or a criterion changes the questions or the criteria of the
\* saved Rubric (Save Complete Rubric pressed again changes neither the
\* working collections nor, therefore, these).
C17_SavedRubricImmutable ==
    [][(rubric # "None" /\ rubric' # "None") =>
          /\ rubric_questions' = rubric_questions
          /\ rubric_criteria' = rubric_criteria]_vars

\* C18: the criteria are shown under R1..Rn, one id per position; the prompt
\* has one line per criterion under the id of its position; and a step that
\* deletes the criterion at position i keeps the criteria before i and moves
\* every later one down by one position, so by one id.
C18_IdsArePositions ==
    /\ [](/\ Len(criteria_expanders(criteria_list)) = Len(criteria_list)
          /\ Len(build_prompt(criteria_list, questions_dict).criteria) = Len(criteria_list)
          /\ \A i \in 1..Len(criteria_list) :
                /\ criteria_expanders(criteria_list)[i].label =
                       DisplayId(i) \o ": " \o criteria_list[i].title
                /\ criteria_expanders(criteria_list)[i].button = "Delete " \o DisplayId(i)
                /\ build_prompt(criteria_list, questions_dict).criteria[i] =
                       DisplayId(i) \o ". " \o criteria_list[i].title
                           \o ": " \o criteria_list[i].explanation)
    /\ [][\A i \in 1..MaxCriteria :
             DeleteCriteria(i) =>
                 /\ Len(criteria_list') = Len(criteria_list) - 1
                 /\ \A j \in 1..Len(criteria_list') :
                       criteria_list'[j] = IF j < i THEN criteria_list[j]
                                                    ELSE criteria_list[j + 1]]_vars

\* two criteria of different titles, shown as R1 and R2 and sent as R1 and R2
C18_Witness ==
    /\ Len(criteria_list) = 2
    /\ criteria_list[1].title = "Depth"
    /\ criteria_list[2].title = "Clarity"
    /\ criteria_expanders(criteria_list)[2].label = "R2: Clarity"
    /\ build_prompt(criteria_list, questions_dict).criteria[1] = "R1. Depth: Is it clear?"

----------------------------------------------------------------------------
(* Claims about the session, under Spec: students and readiness *)

\* C19: no two students of the student list have the same roll number, and
\* no student has an empty roll number.
C19_RollNumbersUnique ==
    /\ \A i \in 1..Len(students), j \in 1..Len(students) :
          i # j => students[i].roll_number # students[j].roll_number
    /\ \A i \in 1..Len(students) : students[i].roll_number # ""

\* C20: a step that starts an evaluation loop, and a step that calls
\* evaluate_with_gemini, starts from a state with a student, a question, a
\* criterion and a saved rubric.
C20_EvaluatedOnlyWhenReady ==
    [][(\/ evaluation_in_progress' /\ ~evaluation_in_progress
        \/ Len(calls') > Len(calls)) =>
          /\ students # <<>>
          /\ questions_dict # <<>>
          /\ criteria_list # <<>>
          /\ rubric # "None"]_vars

\* after an evaluation every question was deleted: the rubric is saved, a
\* student and a criterion are there, and no evaluation is running
C20_Witness ==
    /\ rubric # "None"
    /\ students # <<>>
    /\ criteria_list # <<>>
    /\ results # <<>>
    /\ questions_dict = <<>>
    /\ ~evaluation_in_progress

----------------------------------------------------------------------------
(* Claims about the rubric editor, under SpecRubric: Add Rubric Criteria *)

\* C21: a step of Add Rubric Criteria whose rubric id is the display id of a
\* position replaces the criterion at that position and nothing else, the
\* length staying as it was; with any other rubric id it appends the new
\* criterion, which is then shown under R<old length + 1>.
C21_AddReplacesOrAppends ==
    [][\A r_id \in RubricIds, t \in RubricTitles, e \in ExplanationInputs :
          AddCriteria(r_id, t, e) =>
              IF \E i \in 1..Len(criteria_list) : r_id = DisplayId(i)
              THEN /\ Len(criteria_list') = Len(criteria_list)
                   /\ \A j \in 1..Len(criteria_list) :
                         criteria_list'[j] = IF r_id = DisplayId(j)
                                             THEN RubricCriteria(t, e)
                                             ELSE criteria_list[j]
              ELSE /\ Len(criteria_list') = Len(criteria_list) + 1
                   /\ SubSeq(criteria_list', 1, Len(criteria_list)) = criteria_list
                   /\ criteria_list'[Len(criteria_list) + 1] = RubricCriteria(t, e)
                   /\ criteria_expanders(criteria_list')[Len(criteria_list) + 1].label =
                          "R" \o ToString(Len(criteria_list) + 1) \o ": " \o t]_vars

\* two criteria, Clarity shown as R1 and Depth shown as R2, the rubric saved
C21_Witness ==
    /\ rubric # "None"
    /\ Len(criteria_list) = 2
    /\ criteria_expanders(criteria_list)[1].label = "R1: Clarity"
    /\ criteria_expanders(criteria_list)[2].label = "R2: Depth"

====
